---- MODULE Spec2Model ----
(***************************************************************************)
(* The scan routines of src/ris_widget/histogram/_histogram_src.c: twelve  *)
(* C functions that walk a strided 2-D image once and produce a histogram  *)
(* and/or the minimum and maximum sample.                                  *)
(*                                                                         *)
(* One call is modelled step by step.  `args` holds the parameters of the  *)
(* call, `image` the memory the call has loaded so far (byte offset from   *)
(* the `image` pointer |-> sample), `st` the locals and the output cells.  *)
(* A sample is fixed the first time the call loads its address, so every   *)
(* image over the sample sets below is explored.                           *)
(***************************************************************************)
EXTENDS Integers, Naturals, Sequences, FiniteSets, TLC

VARIABLES args, image, st

vars == <<args, image, st>>

(***************************************************************************)
(* Bounds of the explored inputs.                                          *)
(***************************************************************************)
MaxRows == 2
MaxSamples == 4
MaxBins == 3

(***************************************************************************)
(* The functions of the file, by element kind and pass shape.              *)
(***************************************************************************)
Fixed8Fns == {"hist_uint8", "masked_hist_uint8"}
Ranged8Fns == {"ranged_hist_uint8", "masked_ranged_hist_uint8"}
Fixed16Fns == {"hist_uint16", "masked_hist_uint16"}
Ranged16Fns == {"ranged_hist_uint16", "masked_ranged_hist_uint16"}
MinMaxFns == {"minmax_float", "masked_minmax_float"}
RangedFloatFns == {"ranged_hist_float", "masked_ranged_hist_float"}

FixedFns == Fixed8Fns \cup Fixed16Fns
BinnedFns == Ranged16Fns \cup RangedFloatFns
RangedFns == Ranged8Fns \cup BinnedFns
Fns == FixedFns \cup RangedFns \cup MinMaxFns

MaskedFns == {"masked_hist_uint8", "masked_ranged_hist_uint8", "masked_hist_uint16",
              "masked_ranged_hist_uint16", "masked_minmax_float",
              "masked_ranged_hist_float"}

Masked(fn) == fn \in MaskedFns

\* The functions that keep working_min/working_max and store *min, *max.
HasMinMax(fn) == fn \notin RangedFloatFns

Kind(fn) ==
    IF fn \in Fixed8Fns \cup Ranged8Fns THEN "uint8"
    ELSE IF fn \in Fixed16Fns \cup Ranged16Fns THEN "uint16"
    ELSE "float"

\* sizeof the element the function casts each pixel pointer to.
ElemSize(fn) ==
    IF Kind(fn) = "uint8" THEN 1 ELSE IF Kind(fn) = "uint16" THEN 2 ELSE 4

(***************************************************************************)
(* Single-precision arithmetic of the ranged path, on the operands the     *)
(* code gives it: n_bins, hist_max - hist_min and val - hist_min are       *)
(* non-negative integers below 2^24 + 1, hence exact as floats.  A float   *)
(* is [m, e] standing for m * 2^-e with 2^23 <= m <= 2^24.  Products are   *)
(* formed in 12-bit limbs so that no intermediate exceeds 31 bits.         *)
(***************************************************************************)
Pow2(k) == 2 ^ k

ShiftRight(v, k) == IF k >= 31 THEN 0 ELSE v \div Pow2(k)

RECURSIVE BitLen(_)
BitLen(v) == IF v = 0 THEN 0 ELSE 1 + BitLen(v \div 2)

\* Long division n / d carried on until the quotient has 25 significant bits.
RECURSIVE DivBits(_, _, _, _)
DivBits(q, r, d, e) ==
    IF q >= Pow2(24) THEN [q |-> q, r |-> r, e |-> e]
    ELSE IF 2 * r >= d THEN DivBits(2 * q + 1, 2 * r - d, d, e + 1)
    ELSE DivBits(2 * q, 2 * r, d, e + 1)

\* (float) n / d, rounded to nearest, ties to even; n >= 1, d >= 1.
F32Div(n, d) ==
    LET x == DivBits(n \div d, n % d, d, 0)
        m == x.q \div 2
        up == (x.q % 2 = 1) /\ (x.r > 0 \/ m % 2 = 1)
    IN  [m |-> IF up THEN m + 1 ELSE m, e |-> x.e - 1]

\* (uint16_t) (f * x): the float product rounded to nearest even, then
\* truncated toward zero and reduced to 16 bits; 0 <= x < 2^24.
F32MulTrunc(f, x) ==
    LET a1 == f.m \div 4096
        a0 == f.m % 4096
        b1 == x \div 4096
        b0 == x % 4096
        c0 == a0 * b0
        t1 == a1 * b0 + a0 * b1 + (c0 \div 4096)
        H == a1 * b1 + (t1 \div 4096)
        Lo == (t1 % 4096) * 4096 + (c0 % 4096)
        h == BitLen(H)
        R == H * Pow2(24 - h) + (Lo \div Pow2(h))
        rem == Lo % Pow2(h)
        half == Pow2(h - 1)
        up == rem > half \/ (rem = half /\ R % 2 = 1)
        Rr == IF up THEN R + 1 ELSE R
        whole == IF H = 0 THEN ShiftRight(Lo, f.e)
                 ELSE IF h >= f.e THEN Rr * Pow2(h - f.e)
                 ELSE ShiftRight(Rr, f.e - h)
    IN  whole % 65536

(***************************************************************************)
(* The histogram buffer: bin index |-> counter, holding the counters that  *)
(* have been written.  A counter that was never written reads as the zero  *)
(* the caller put there.                                                   *)
(***************************************************************************)
ZeroHist == [b \in {} |-> 0]

Count(h, b) == IF b \in DOMAIN h THEN h[b] ELSE 0

\* Inc with the counter stored anew instead of incremented.
Inc_Store(h, b) == [x \in DOMAIN h \cup {b} |-> IF x = b THEN 1 ELSE h[x]]

\* histogram[b]++
Inc(h, b) == [x \in DOMAIN h \cup {b} |-> IF x = b THEN Count(h, b) + 1 ELSE h[x]]

\* val >> shift
Shr(val, shift) == val \div Pow2(shift)

\* Hist8 with the counter incremented twice for one sample.
Hist8_Twice(h, val) == Inc(Inc(h, val), val)

\* hist_uint8 / masked_hist_uint8: histogram[val]++
Hist8(h, val) == Inc(h, val)

\* RangedHist8 with hist_max excluded.
RangedHist8_HalfOpen(h, hist_min, hist_max, val) ==
    IF val >= hist_min /\ val < hist_max THEN Inc(h, val - hist_min) ELSE h

\* ranged_hist_uint8 / masked_ranged_hist_uint8
RangedHist8(h, hist_min, hist_max, val) ==
    IF val >= hist_min /\ val <= hist_max THEN Inc(h, val - hist_min) ELSE h

\* Hist16 with the shift left out.
Hist16_NoShift(h, shift, val) == Inc(h, val)

\* hist_uint16 / masked_hist_uint16: histogram[val >> shift]++
Hist16(h, shift, val) == Inc(h, Shr(val, shift))

\* (uint16_t) (bin_factor * (val - hist_min)) with
\* bin_factor = (float) n_bins / (hist_max - hist_min); evaluated only where
\* the code uses it, under hist_min <= val < hist_max.
BinIndex(n_bins, hist_min, hist_max, val) ==
    IF n_bins = 0 THEN 0
    ELSE F32MulTrunc(F32Div(n_bins, hist_max - hist_min), val - hist_min)

\* RangedHist without the closed upper bound.
RangedHist_HalfOpen(h, n_bins, hist_min, hist_max, val) ==
    IF val >= hist_min /\ val < hist_max
    THEN Inc(h, BinIndex(n_bins, hist_min, hist_max, val))
    ELSE h

\* ranged_hist_uint16, ranged_hist_float and their masked variants;
\* last_bin = histogram + n_bins - 1.
RangedHist(h, n_bins, hist_min, hist_max, val) ==
    IF val >= hist_min /\ val < hist_max
    THEN Inc(h, BinIndex(n_bins, hist_min, hist_max, val))
    ELSE IF val = hist_max THEN Inc(h, n_bins - 1)
    ELSE h

\* The histogram statement of the inner loop body of a.fn.
HistUpdate(a, h, val) ==
    IF a.fn \in Fixed8Fns THEN Hist8(h, val)
    ELSE IF a.fn \in Ranged8Fns THEN RangedHist8(h, a.hist_min, a.hist_max, val)
    ELSE IF a.fn \in Fixed16Fns THEN Hist16(h, a.shift, val)
    ELSE IF a.fn \in BinnedFns
    THEN RangedHist(h, a.n_bins, a.hist_min, a.hist_max, val)
    ELSE h

\* MinMaxUpdate with the second test made against the wrong local.
MinMaxUpdate_WrongLocal(working_min, working_max, val) ==
    IF val < working_min THEN <<val, working_max>>
    ELSE IF val > working_min THEN <<working_min, val>>
    ELSE <<working_min, working_max>>

\* if (val < working_min) working_min = val;
\* else if (val > working_max) working_max = val;
MinMaxUpdate(working_min, working_max, val) ==
    IF val < working_min THEN <<val, working_max>>
    ELSE IF val > working_max THEN <<working_min, val>>
    ELSE <<working_min, working_max>>

(***************************************************************************)
(* Addresses are byte offsets from the `image` pointer.                    *)
(***************************************************************************)
\* x * y with a uint16_t x and a uint32_t y: x is promoted, the product is a
\* uint32_t.  A call that counts addresses in bytes keeps every product far
\* below 2^32; a call that carries a.wrap counts addresses in units of
\* 2^32 / a.wrap bytes, so that the product is taken modulo a.wrap.
Mul32(a, x, y) == IF "wrap" \in DOMAIN a THEN (x * y) % a.wrap ELSE x * y

\* image + rows*r_stride, the sentinel of the outer loop.
RowsEnd(a) == Mul32(a, a.rows, a.r_stride)

\* SeedAddr with the masked seed taken from column 0.
SeedAddr_Origin(a) == 0

\* The address the working minimum and maximum are seeded from.
SeedAddr(a) == IF Masked(a.fn) THEN Mul32(a, a.starts[1], a.c_stride) ELSE 0

\* The column the inner loop starts at: *starts, or 0 without a mask.
SpanStart(a, s) == IF Masked(a.fn) THEN a.starts[s.mrow] ELSE 0

\* SpanEnd with *ends taken as an inclusive bound.
SpanEnd_Inclusive(a, s) == IF Masked(a.fn) THEN a.ends[s.mrow] + 1 ELSE a.cols

\* The column of the inner loop's sentinel: *ends, or cols without a mask.
SpanEnd(a, s) == IF Masked(a.fn) THEN a.ends[s.mrow] ELSE a.cols

(***************************************************************************)
(* The steps of one call.  s.mrow is the position of the starts and ends   *)
(* pointers (1 at entry), s.visited the addresses the loop body has read.  *)
(***************************************************************************)
\* SeedStep with working_max left at 0 instead of the seed sample.
SeedStep_ZeroMax(a, s, v) ==
    [s EXCEPT !.pc = "rows", !.row_start = 0,
              !.working_min = v, !.working_max = 0]

\* The declarations and the for-init of the outer loop; v is the sample
\* loaded from SeedAddr(a).
SeedStep(a, s, v) ==
    [s EXCEPT !.pc = "rows", !.row_start = 0,
              !.working_min = v, !.working_max = v]

\* ranged_hist_float / masked_ranged_hist_float keep no minimum or maximum.
EnterStep(a, s) == [s EXCEPT !.pc = "rows", !.row_start = 0]

\* Outer loop test passed: the for-init of the inner loop.
RowEnterStep(a, s) ==
    [s EXCEPT !.pc = "pixels",
              !.pixel = s.row_start + Mul32(a, SpanStart(a, s), a.c_stride)]

\* Outer loop test failed.
LoopExitStep(a, s) ==
    [s EXCEPT !.pc = IF HasMinMax(a.fn) THEN "store" ELSE "done"]

\* One iteration of the inner loop; v is the sample loaded from s.pixel.
PixelStep(a, s, v) ==
    LET mm == MinMaxUpdate(s.working_min, s.working_max, v)
    IN  [s EXCEPT !.histogram = HistUpdate(a, s.histogram, v),
                  !.working_min = IF HasMinMax(a.fn) THEN mm[1] ELSE @,
                  !.working_max = IF HasMinMax(a.fn) THEN mm[2] ELSE @,
                  !.pixel = s.pixel + a.c_stride,
                  !.visited = Append(s.visited, s.pixel)]

\* RowAdvanceStep with starts++, ends++ left out.
RowAdvanceStep_NoMaskAdvance(a, s) ==
    [s EXCEPT !.pc = "rows", !.row_start = s.row_start + a.r_stride]

\* Inner loop test failed: row_start += r_stride, starts++, ends++.
RowAdvanceStep(a, s) ==
    [s EXCEPT !.pc = "rows",
              !.row_start = s.row_start + a.r_stride,
              !.mrow = IF Masked(a.fn) THEN s.mrow + 1 ELSE @]

\* *min = working_min; *max = working_max;
StoreStep(a, s) ==
    [s EXCEPT !.pc = "done", !.min = s.working_min, !.max = s.working_max]

InRow(a, s) == s.row_start # RowsEnd(a)

\* InSpan with the inner loop left one sample before its sentinel.
InSpan_OneShort(a, s) ==
    /\ s.pixel # s.row_start + Mul32(a, SpanEnd(a, s), a.c_stride)
    /\ s.pixel + a.c_stride # s.row_start + Mul32(a, SpanEnd(a, s), a.c_stride)

InSpan(a, s) == s.pixel # s.row_start + Mul32(a, SpanEnd(a, s), a.c_stride)

(***************************************************************************)
(* Inputs.                                                                 *)
(***************************************************************************)
\* The value an output cell or a local holds before the call assigns it.
NoValue == -1

Samples(kind) ==
    IF kind = "uint8" THEN {10, 20, 30, 255}
    ELSE IF kind = "uint16" THEN {0, 41, 82, 4095}
    ELSE {0, 41, 82, 16777214}

\* <<hist_min, hist_max>> pairs; the kernel itself accepts any pair, so a
\* degenerate and an inverted one are among them.
Ranges(kind) ==
    IF kind = "uint8" THEN {<<10, 30>>, <<20, 255>>}
    ELSE IF kind = "uint16" THEN {<<0, 82>>, <<41, 82>>, <<82, 82>>, <<82, 41>>}
    ELSE {<<0, 82>>, <<0, 16777215>>, <<82, 82>>}

\* 0 is the natural histogram, 4 the 12-bit-in-16 one.
Shifts == {0, 4}

Shapes == {rc \in (1 .. MaxRows) \X (1 .. MaxSamples) : rc[1] * rc[2] <= MaxSamples}

\* starts[i] <= ends[i] <= cols for every row.
Spans(cols) == {se \in (0 .. cols) \X (0 .. cols) : se[1] <= se[2]}

Masks(rows, cols) == [1 .. rows -> Spans(cols)]

\* The byte strides <<r_stride, c_stride>> of a rows x cols view: row-major
\* packed, or the transposed view of a column-major buffer.
Layouts == {"packed", "transposed"}

Strides(layout, fn, rows, cols) ==
    IF layout = "packed" THEN <<cols * ElemSize(fn), ElemSize(fn)>>
    ELSE <<ElemSize(fn), rows * ElemSize(fn)>>

Call(fn, rows, cols, layout, mask, shift, n_bins, range) ==
    [fn |-> fn, rows |-> rows, cols |-> cols,
     r_stride |-> Strides(layout, fn, rows, cols)[1],
     c_stride |-> Strides(layout, fn, rows, cols)[2],
     starts |-> [i \in DOMAIN mask |-> mask[i][1]],
     ends |-> [i \in DOMAIN mask |-> mask[i][2]],
     shift |-> shift, n_bins |-> n_bins,
     hist_min |-> range[1], hist_max |-> range[2]]

\* <<shift, n_bins, <<hist_min, hist_max>>>>: the parameters fn takes; the
\* ones it does not take are 0.
Params(fn) ==
    IF fn \in Fixed16Fns THEN {<<shift, 0, <<0, 0>>>> : shift \in Shifts}
    ELSE IF fn \in Ranged8Fns THEN {<<0, 0, range>> : range \in Ranges("uint8")}
    ELSE IF fn \in BinnedFns
    THEN {<<0, nr[1], nr[2]>> : nr \in (1 .. MaxBins) \X Ranges(Kind(fn))}
    ELSE {<<0, 0, <<0, 0>>>>}

CallsFor(fn, rows, cols) ==
    { Call(fn, rows, cols, layout, mask, p[1], p[2], p[3]) :
        layout \in Layouts,
        mask \in (IF Masked(fn) THEN Masks(rows, cols) ELSE {<<>>}),
        p \in Params(fn) }

Calls == UNION {CallsFor(fn, rc[1], rc[2]) : fn \in Fns, rc \in Shapes}

NoImage == [addr \in {} |-> 0]

Entry ==
    [pc |-> "start", row_start |-> NoValue, pixel |-> NoValue, mrow |-> 1,
     working_min |-> NoValue, working_max |-> NoValue,
     histogram |-> ZeroHist, min |-> NoValue, max |-> NoValue,
     visited |-> <<>>]

(***************************************************************************)
(* The call as a state machine.                                            *)
(***************************************************************************)
Init ==
    /\ args \in Calls
    /\ image = NoImage
    /\ st = Entry

\* The samples a load from addr can return: the one already seen there, or
\* any sample of the element kind at an address not loaded before.
Loadable(addr) ==
    IF addr \in DOMAIN image THEN {image[addr]} ELSE Samples(Kind(args.fn))

Loaded(addr, v) == IF addr \in DOMAIN image THEN image ELSE (addr :> v) @@ image

Seed ==
    /\ st.pc = "start"
    /\ HasMinMax(args.fn)
    /\ \E v \in Loadable(SeedAddr(args)) :
          /\ image' = Loaded(SeedAddr(args), v)
          /\ st' = SeedStep(args, st, v)
    /\ UNCHANGED args

Enter ==
    /\ st.pc = "start"
    /\ ~HasMinMax(args.fn)
    /\ st' = EnterStep(args, st)
    /\ UNCHANGED <<args, image>>

RowEnter ==
    /\ st.pc = "rows"
    /\ InRow(args, st)
    /\ st' = RowEnterStep(args, st)
    /\ UNCHANGED <<args, image>>

LoopExit ==
    /\ st.pc = "rows"
    /\ ~InRow(args, st)
    /\ st' = LoopExitStep(args, st)
    /\ UNCHANGED <<args, image>>

Pixel ==
    /\ st.pc = "pixels"
    /\ InSpan(args, st)
    /\ \E v \in Loadable(st.pixel) :
          /\ image' = Loaded(st.pixel, v)
          /\ st' = PixelStep(args, st, v)
    /\ UNCHANGED args

RowAdvance ==
    /\ st.pc = "pixels"
    /\ ~InSpan(args, st)
    /\ st' = RowAdvanceStep(args, st)
    /\ UNCHANGED <<args, image>>

Store ==
    /\ st.pc = "store"
    /\ st' = StoreStep(args, st)
    /\ UNCHANGED <<args, image>>

Next == Seed \/ Enter \/ RowEnter \/ LoopExit \/ Pixel \/ RowAdvance \/ Store

Spec == Init /\ [][Next]_vars

(***************************************************************************)
(* The whole call as a function of its parameters and of a memory img that *)
(* holds every address the call loads.                                     *)
(***************************************************************************)
Step(a, img, s) ==
    IF s.pc = "start"
    THEN IF HasMinMax(a.fn) THEN SeedStep(a, s, img[SeedAddr(a)]) ELSE EnterStep(a, s)
    ELSE IF s.pc = "rows"
    THEN IF InRow(a, s) THEN RowEnterStep(a, s) ELSE LoopExitStep(a, s)
    ELSE IF s.pc = "pixels"
    THEN IF InSpan(a, s) THEN PixelStep(a, s, img[s.pixel]) ELSE RowAdvanceStep(a, s)
    ELSE StoreStep(a, s)

RECURSIVE Run(_, _, _)
Run(a, img, s) == IF s.pc = "done" THEN s ELSE Run(a, img, Step(a, img, s))

(***************************************************************************)
(* Reference quantities the properties are stated against.                 *)
(***************************************************************************)
Done == st.pc = "done"

Cells(a) == (0 .. a.rows - 1) \X (0 .. a.cols - 1)

\* The cells inside the spans [starts[i], ends[i]); every cell without a mask.
Active(a) ==
    {rc \in Cells(a) :
        Masked(a.fn) => a.starts[rc[1] + 1] <= rc[2] /\ rc[2] < a.ends[rc[1] + 1]}

Addr(a, rc) == rc[1] * a.r_stride + rc[2] * a.c_stride

Known(S) == \A rc \in S : Addr(args, rc) \in DOMAIN image

Sample(rc) == image[Addr(args, rc)]

ValuesAt(S) == {Sample(rc) : rc \in S}

SetMin(S) == CHOOSE x \in S : \A y \in S : x <= y

SetMax(S) == CHOOSE x \in S : \A y \in S : x >= y

RECURSIVE SumOver(_, _)
SumOver(h, S) ==
    IF S = {} THEN 0
    ELSE LET b == CHOOSE x \in S : TRUE IN h[b] + SumOver(h, S \ {b})

\* The sum of all counters written.
SumHist(h) == SumOver(h, DOMAIN h)

\* The sum of the counters of a histogram buffer of len elements.
SumBuffer(h, len) == SumOver(h, {b \in DOMAIN h : 0 <= b /\ b < len})

RECURSIVE SpanSum(_, _)
SpanSum(a, i) == IF i = 0 THEN 0 ELSE a.ends[i] - a.starts[i] + SpanSum(a, i - 1)

\* rows*cols, or the sum of the span lengths.
ActiveCount(a) == IF Masked(a.fn) THEN SpanSum(a, a.rows) ELSE a.rows * a.cols

FullMask(a) ==
    Masked(a.fn) /\ \A i \in 1 .. a.rows : a.starts[i] = 0 /\ a.ends[i] = a.cols

EmptyMask(a) == Masked(a.fn) /\ \A i \in 1 .. a.rows : a.starts[i] = a.ends[i]

Unmasked(fn) ==
    CASE fn = "masked_hist_uint8" -> "hist_uint8"
      [] fn = "masked_ranged_hist_uint8" -> "ranged_hist_uint8"
      [] fn = "masked_hist_uint16" -> "hist_uint16"
      [] fn = "masked_ranged_hist_uint16" -> "ranged_hist_uint16"
      [] fn = "masked_minmax_float" -> "minmax_float"
      [] fn = "masked_ranged_hist_float" -> "ranged_hist_float"
      [] OTHER -> fn

\* The unmasked call on the same image and parameters.
UnmaskedCall(a) == [a EXCEPT !.fn = Unmasked(a.fn)]

\* The 16-bit ranged call on the same samples and range, with n_bins bins.
Ranged16Call(a, n_bins) ==
    [a EXCEPT !.fn = IF Masked(a.fn) THEN "masked_ranged_hist_uint16"
                     ELSE "ranged_hist_uint16",
              !.n_bins = n_bins]

InRange(a, v) == a.hist_min <= v /\ v <= a.hist_max

\* The 2x2 uint8 image [[10, 20], [30, 255]], packed.
Example8 == (0 :> 10) @@ (1 :> 20) @@ (2 :> 30) @@ (3 :> 255)

(***************************************************************************)
(* Properties.                                                             *)
(***************************************************************************)

C2_FullMaskSame ==
    (Done /\ FullMask(args)) =>
        LET u == Run(UnmaskedCall(args), image, Entry)
        IN  /\ st.histogram = u.histogram
            /\ st.min = u.min
            /\ st.max = u.max

\* A finished full-mask scan of a 2x2 image with distinct minimum and maximum.
C2_Witness ==
    /\ Done /\ FullMask(args)
    /\ args.rows = 2 /\ args.cols = 2
    /\ HasMinMax(args.fn) /\ st.min < st.max
    /\ Len(st.visited) = 4

\* C3 (as claimed): with at least one non-empty span, a masked scan ends with
\* *min and *max equal to the least and the greatest sample inside the spans.
C3_MaskedMinMaxOverSpans ==
    (Done /\ Masked(args.fn) /\ HasMinMax(args.fn) /\ Active(args) # {}) =>
        /\ Known(Active(args))
        /\ st.min = SetMin(ValuesAt(Active(args)))
        /\ st.max = SetMax(ValuesAt(Active(args)))

\* C4: when every span is empty the scan never stops short of its end, and
\* it ends having counted nothing, with the histogram as it was and the
\* sample loaded from image + starts[0]*c_stride in both *min and *max.
C4_EmptyMaskSeed ==
    EmptyMask(args) =>
        /\ Done \/ ENABLED Next
        /\ st.visited = <<>>
        /\ st.histogram = ZeroHist
        /\ (Done /\ HasMinMax(args.fn)) =>
              /\ args.starts[1] * args.c_stride \in DOMAIN image
              /\ st.min = image[args.starts[1] * args.c_stride]
              /\ st.max = image[args.starts[1] * args.c_stride]

\* A finished two-row scan with both spans empty and a seed column above 0.
C4_Witness ==
    /\ Done /\ EmptyMask(args) /\ HasMinMax(args.fn)
    /\ args.rows = 2 /\ args.starts[1] = 1 /\ args.cols = 2
    /\ st.min = st.max /\ st.min = image[args.c_stride]

\* C5: on the fixed path every bin b ends with the number of active samples
\* v with (v >> shift) = b, shift being 0 for the 8-bit functions.
C5_FixedBinCounts ==
    (Done /\ args.fn \in FixedFns) =>
        /\ Known(Active(args))
        /\ \A b \in DOMAIN st.histogram
                     \cup {v \div Pow2(args.shift) : v \in Samples(Kind(args.fn))} :
              Count(st.histogram, b) =
                  Cardinality({rc \in Active(args) :
                                  Sample(rc) \div Pow2(args.shift) = b})

\* hist_uint8 has scanned [[10, 20], [30, 255]]: bins 10, 20, 30, 255 hold 1.
C5_Witness ==
    /\ Done /\ args.fn = "hist_uint8" /\ args.rows = 2 /\ args.cols = 2
    /\ args.c_stride = 1
    /\ image = Example8
    /\ st.histogram = (10 :> 1) @@ (20 :> 1) @@ (30 :> 1) @@ (255 :> 1)

\* C6: on the fixed path the counters always sum to the number of samples the
\* loop body has visited, and at the end to rows*cols or to the sum of the
\* span lengths.
C6_FixedSum ==
    args.fn \in FixedFns =>
        /\ SumHist(st.histogram) = Len(st.visited)
        /\ Done => SumHist(st.histogram) = ActiveCount(args)

\* masked_hist_uint16 has finished a two-row mask with spans of 2 and 1.
C6_Witness ==
    /\ Done /\ args.fn = "masked_hist_uint16" /\ args.rows = 2
    /\ args.ends[1] - args.starts[1] = 2 /\ args.ends[2] - args.starts[2] = 1
    /\ SumHist(st.histogram) = 3

\* The length of the histogram buffer a ranged call indexes: n_bins where
\* the function takes it, one bin per value of [hist_min, hist_max] in the
\* 8-bit functions.
RangedLen(a) ==
    IF a.fn \in Ranged8Fns THEN a.hist_max - a.hist_min + 1 ELSE a.n_bins

\* C7 (as claimed): on the ranged path with hist_min < hist_max the bins of
\* the histogram sum to at most the number of active samples, and to exactly
\* that number iff every active sample lies in [hist_min, hist_max].
C7_RangeDrop ==
    (Done /\ args.fn \in RangedFns /\ args.hist_min < args.hist_max) =>
        LET sum == SumBuffer(st.histogram, RangedLen(args))
        IN  /\ Known(Active(args))
            /\ sum <= ActiveCount(args)
            /\ (sum = ActiveCount(args)) <=>
                   (\A rc \in Active(args) : InRange(args, Sample(rc)))

ExactBin(a, v) ==
    IF v = a.hist_max THEN a.n_bins - 1
    ELSE (a.n_bins * (v - a.hist_min)) \div (a.hist_max - a.hist_min)

\* C9 (as claimed): with hist_min < hist_max and n_bins >= 1 every sample v
\* with hist_min <= v < hist_max increments exactly bin
\* floor(n_bins * (v - hist_min) / (hist_max - hist_min)), and no counter
\* outside bins 0 .. n_bins - 1 is written.
C9_ExactBinInBounds ==
    (args.fn \in BinnedFns /\ args.hist_min < args.hist_max /\ args.n_bins >= 1) =>
        /\ \A b \in DOMAIN st.histogram : 0 <= b /\ b < args.n_bins
        /\ \A b \in 0 .. args.n_bins - 1 :
              Count(st.histogram, b) =
                  Cardinality({i \in 1 .. Len(st.visited) :
                                  /\ InRange(args, image[st.visited[i]])
                                  /\ ExactBin(args, image[st.visited[i]]) = b})

Entries ==
    {"min_max", "masked_min_max", "ranged_hist", "masked_ranged_hist",
     "hist_min_max", "masked_hist_min_max"}

MaskedEntries == {"masked_min_max", "masked_ranged_hist", "masked_hist_min_max"}

RangedEntries == {"ranged_hist", "masked_ranged_hist"}

HistEntries == {"hist_min_max", "masked_hist_min_max"}

MinMaxEntries == Entries \ RangedEntries

\* The formats the dispatch chains of min_max and ranged_hist name.
SupportedFormats == {"float32", "uint8", "uint16", "uint32", "uint64", "float64"}

\* The formats the dispatch chain of hist_min_max names with the flag clear.
IntegerFormats == {"uint8", "uint16", "uint32", "uint64"}

\* A buffer can also carry a format no chain names.
Formats == SupportedFormats \cup {"int16"}

\* bin_count<T>() of _ndimage_statistics.h: one constant per element type.
\* 256 for uint8; for the wider types the value the build was given.
bin_count(a, T) == IF T = "uint8" THEN 256 ELSE a.wide_bins

\* The checks of each entry point, in the order of its if statements.
Checks(entry) ==
    IF entry = "min_max"
    THEN <<"im_ndim", "min_max_ndim", "min_max_len", "min_max_format">>
    ELSE IF entry = "masked_min_max"
    THEN <<"im_ndim", "min_max_ndim", "min_max_len", "min_max_format",
           "mask_ndim", "mask_format">>
    ELSE IF entry \in RangedEntries
    THEN <<"im_ndim", "range_format", "hist_ndim", "hist_format">>
    ELSE IF entry = "hist_min_max"
    THEN <<"im_ndim", "hist_ndim", "hist_format",
           "min_max_ndim", "min_max_len", "min_max_format">>
    ELSE <<"im_ndim", "mask_ndim", "mask_format", "hist_ndim", "hist_format",
           "min_max_ndim", "min_max_len", "min_max_format">>

\* Violates with the length of min_max tested as "fewer than 2".
Violates_LenBelow(check, a) ==
    IF check = "im_ndim" THEN Len(a.im_shape) # 2
    ELSE IF check = "min_max_ndim" THEN Len(a.min_max_shape) # 1
    ELSE IF check = "min_max_len" THEN a.min_max_shape[1] < 2
    ELSE IF check = "min_max_format" THEN a.im_format # a.min_max_format
    ELSE IF check = "mask_ndim" THEN Len(a.mask_shape) # 2
    ELSE IF check = "mask_format" THEN a.mask_format # "uint8"
    ELSE IF check = "range_format" THEN a.im_format # a.range_format
    ELSE IF check = "hist_ndim" THEN Len(a.hist_shape) # 1
    ELSE a.hist_format # "uint32"

\* The condition under which a check throws.
Violates(check, a) ==
    IF check = "im_ndim" THEN Len(a.im_shape) # 2
    ELSE IF check = "min_max_ndim" THEN Len(a.min_max_shape) # 1
    ELSE IF check = "min_max_len" THEN a.min_max_shape[1] # 2
    ELSE IF check = "min_max_format" THEN a.im_format # a.min_max_format
    ELSE IF check = "mask_ndim" THEN Len(a.mask_shape) # 2
    ELSE IF check = "mask_format" THEN a.mask_format # "uint8"
    ELSE IF check = "range_format" THEN a.im_format # a.range_format
    ELSE IF check = "hist_ndim" THEN Len(a.hist_shape) # 1
    ELSE a.hist_format # "uint32"

NoKernel == [template |-> "none"]

\* The kernel call of the selected branch: the template, its type and flag
\* parameters and the arguments handed over.
Instantiation(a) ==
    [template |-> a.entry,
     T |-> a.im_format,
     flag |-> IF a.entry \in RangedEntries \cup HistEntries THEN a.flag ELSE FALSE,
     im_shape |-> a.im_shape,
     mask |-> IF a.entry \in MaskedEntries
              THEN <<a.mask_shape, a.mask_format>> ELSE <<>>,
     range |-> IF a.entry \in RangedEntries THEN a.range ELSE <<>>,
     n_bins |-> IF a.entry \in RangedEntries THEN a.hist_shape[1] ELSE 0,
     outputs |-> IF a.entry \in RangedEntries THEN {"hist"}
                 ELSE IF a.entry \in HistEntries THEN {"hist", "min_max"}
                 ELSE {"min_max"}]

\* throw std::invalid_argument(...)
Raise(s, check) == [s EXCEPT !.pc = "raised", !.error = check]

\* One if statement of the chain of checks.
CheckStep(a, s) ==
    IF Violates(Checks(a.entry)[s.next], a)
    THEN Raise(s, Checks(a.entry)[s.next])
    ELSE IF s.next = Len(Checks(a.entry))
    THEN [s EXCEPT !.pc = "dispatch"]
    ELSE [s EXCEPT !.next = s.next + 1]

\* DispatchStep with the flag's branch taking every integer kind.
DispatchStep_FlagAnyKind(a, s) ==
    IF a.entry \in HistEntries
    THEN IF a.im_format \in IntegerFormats
         THEN [s EXCEPT !.pc = "length"]
         ELSE Raise(s, "format")
    ELSE IF a.im_format \in SupportedFormats
         THEN [s EXCEPT !.pc = "call"]
         ELSE Raise(s, "format")

\* The if/else chain on the flag and on im_info.format.
DispatchStep(a, s) ==
    IF a.entry \in HistEntries
    THEN IF a.flag
         THEN IF a.im_format = "uint16"
              THEN [s EXCEPT !.pc = "length"]
              ELSE Raise(s, "twelve_bit")
         ELSE IF a.im_format \in IntegerFormats
              THEN [s EXCEPT !.pc = "length"]
              ELSE Raise(s, "format")
    ELSE IF a.im_format \in SupportedFormats
         THEN [s EXCEPT !.pc = "call"]
         ELSE Raise(s, "format")

\* The bin count the selected branch compares hist_info.shape[0] with.
RequiredLen(a) ==
    IF a.entry = "masked_hist_min_max" /\ ~a.flag /\ a.im_format = "uint16"
    THEN bin_count(a, "uint8")
    ELSE bin_count(a, a.im_format)

\* LengthStep with the comparison placed after the kernel call.
LengthStep_AfterCall(a, s) ==
    IF a.hist_shape[1] # RequiredLen(a)
    THEN [Raise(s, "hist_len") EXCEPT !.kernel = Instantiation(a)]
    ELSE [s EXCEPT !.pc = "call"]

\* if(hist_info.shape[0] != bin_count<T>()) throw ...
LengthStep(a, s) ==
    IF a.hist_shape[1] # RequiredLen(a)
    THEN Raise(s, "hist_len")
    ELSE [s EXCEPT !.pc = "call"]

\* The call of the kernel template.
CallStep(a, s) == [s EXCEPT !.pc = "invoked", !.kernel = Instantiation(a)]

BindStep(a, s) ==
    IF s.pc = "check" THEN CheckStep(a, s)
    ELSE IF s.pc = "dispatch" THEN DispatchStep(a, s)
    ELSE IF s.pc = "length" THEN LengthStep(a, s)
    ELSE CallStep(a, s)

(***************************************************************************)
(* The calls of the binding layer.                                         *)
(***************************************************************************)
ImShapes == {<<2>>, <<0, 2>>, <<2, 0>>, <<2, 2>>, <<2, 2, 2>>}

MinMaxShapes == {<<2>>, <<3>>, <<2, 2>>}

MaskShapes == {<<2, 2>>, <<2>>}

MaskFormats == {"uint8", "bool", "uint16"}

RangeShapes == {<<2>>, <<1>>}

\* hist_min and hist_max as stored in the range buffer.
RangeData == {<<0, 82>>, <<82, 82>>, <<82, 41>>}

RangedHistShapes == {<<0>>, <<1>>, <<3>>, <<2, 2>>}

FixedHistShapes == {<<256>>, <<4096>>, <<65536>>, <<2, 2>>}

HistFormats == {"uint32", "uint16"}

BinCounts == {4096, 65536}

\* The format of a buffer paired with the image: the image's or another.
PairedFormats(format) == {format, IF format = "uint8" THEN "uint16" ELSE "uint8"}

Request(entry, im, min_max, mask, range, hist, flag, wide_bins) ==
    [entry |-> entry,
     im_shape |-> im[1], im_format |-> im[2],
     min_max_shape |-> min_max[1], min_max_format |-> min_max[2],
     mask_shape |-> mask[1], mask_format |-> mask[2],
     range_shape |-> range[1], range_format |-> range[2], range |-> range[3],
     hist_shape |-> hist[1], hist_format |-> hist[2],
     flag |-> flag, wide_bins |-> wide_bins]

\* A buffer argument the entry point does not have.
Absent == <<<<>>, "none", <<>>>>

\* The calls of one entry point on one image buffer.
RequestsOn(entry, im) ==
    {Request(entry, im, min_max, mask, range, hist, flag, wide_bins) :
        min_max \in IF entry \in MinMaxEntries
                    THEN MinMaxShapes \X PairedFormats(im[2]) ELSE {Absent},
        mask \in IF entry \in MaskedEntries
                 THEN MaskShapes \X MaskFormats ELSE {Absent},
        range \in IF entry \in RangedEntries
                  THEN RangeShapes \X PairedFormats(im[2]) \X RangeData
                  ELSE {Absent},
        hist \in IF entry \in RangedEntries THEN RangedHistShapes \X HistFormats
                 ELSE IF entry \in HistEntries THEN FixedHistShapes \X HistFormats
                 ELSE {Absent},
        flag \in IF entry \in RangedEntries \cup HistEntries THEN BOOLEAN ELSE {FALSE},
        wide_bins \in IF entry \in HistEntries THEN BinCounts ELSE {4096}}

BindEntry == [pc |-> "check", next |-> 1, error |-> "none", kernel |-> NoKernel]

BindInit ==
    /\ \E entry \in Entries : \E im \in ImShapes \X Formats :
          args \in RequestsOn(entry, im)
    /\ image = NoImage
    /\ st = BindEntry

Returned == st.pc \in {"raised", "invoked"}

py_min_max ==
    /\ args.entry = "min_max" /\ ~Returned
    /\ st' = BindStep(args, st)
    /\ UNCHANGED <<args, image>>

py_masked_min_max ==
    /\ args.entry = "masked_min_max" /\ ~Returned
    /\ st' = BindStep(args, st)
    /\ UNCHANGED <<args, image>>

py_ranged_hist ==
    /\ args.entry = "ranged_hist" /\ ~Returned
    /\ st' = BindStep(args, st)
    /\ UNCHANGED <<args, image>>

py_masked_ranged_hist ==
    /\ args.entry = "masked_ranged_hist" /\ ~Returned
    /\ st' = BindStep(args, st)
    /\ UNCHANGED <<args, image>>

py_hist_min_max ==
    /\ args.entry = "hist_min_max" /\ ~Returned
    /\ st' = BindStep(args, st)
    /\ UNCHANGED <<args, image>>

py_masked_hist_min_max ==
    /\ args.entry = "masked_hist_min_max" /\ ~Returned
    /\ st' = BindStep(args, st)
    /\ UNCHANGED <<args, image>>

BindNext ==
    \/ py_min_max
    \/ py_masked_min_max
    \/ py_ranged_hist
    \/ py_masked_ranged_hist
    \/ py_hist_min_max
    \/ py_masked_hist_min_max

BindSpec == BindInit /\ [][BindNext]_vars

\* The checks before the dispatch all pass.
ChecksPass(a) ==
    \A i \in 1 .. Len(Checks(a.entry)) : ~Violates(Checks(a.entry)[i], a)

\* The right shift of the fixed path: 4 with is_twelve_bit, 0 without.
FlagShift(a) == IF a.flag THEN 4 ELSE 0

BitWidth(format) ==
    IF format = "uint8" THEN 8 ELSE IF format = "uint16" THEN 16
    ELSE IF format \in {"uint32", "float32"} THEN 32 ELSE 64

\* C11 (as claimed): hist_min_max on an 8- or 16-bit image reaches its kernel
\* only with a histogram of exactly 2^(bitwidth - shift) counters (4096 for
\* uint16 with is_twelve_bit, 65536 for uint16 without, 256 for uint8);
\* with any other length the call has thrown by then.
C11_FixedLength ==
    (/\ args.entry = "hist_min_max"
     /\ args.im_format \in {"uint8", "uint16"}
     /\ st.pc = "invoked")
    => args.hist_shape[1] = Pow2(BitWidth(args.im_format) - FlagShift(args))

\* C12: in each of the six entry points a call that has thrown
\* invalid_argument has invoked no kernel, so no output buffer was handed to
\* one; a kernel is invoked only as the last step of a call that passed
\* every check.
C12_RaisedBeforeKernel ==
    /\ st.pc = "raised" => st.kernel = NoKernel /\ st.error # "none"
    /\ st.kernel # NoKernel => st.pc = "invoked" /\ st.error = "none"

\* hist_min_max has passed every earlier check and thrown on the histogram
\* length, the last check before its kernel call.
C12_Witness ==
    /\ args.entry = "hist_min_max"
    /\ st.pc = "raised" /\ st.error = "hist_len"
    /\ ChecksPass(args)
    /\ args.im_format = "uint16" /\ args.hist_shape = <<256>>

\* C13 (as claimed): a ranged-histogram call whose range has
\* hist_max <= hist_min never reaches the kernel.
C13_DegenerateRangeRejected ==
    (args.entry \in RangedEntries /\ args.range[2] <= args.range[1])
    => st.pc # "invoked"

\* C14 (as claimed): the ranged-histogram kernel is never invoked with
\* n_bins < 1.
C14_PositiveBins ==
    (args.entry \in RangedEntries /\ st.pc = "invoked") => st.kernel.n_bins >= 1

\* C15 (as claimed): an entry point that reports min/max never invokes its
\* kernel on an image with rows = 0 or cols = 0.
C15_EmptyImageRejected ==
    (args.entry \in MinMaxEntries /\ st.pc = "invoked")
    => args.im_shape[1] > 0 /\ args.im_shape[2] > 0

\* The calls the min_max entry point is to accept.
MinMaxAccepted(a) ==
    /\ Len(a.im_shape) = 2
    /\ Len(a.min_max_shape) = 1
    /\ a.min_max_shape[1] = 2
    /\ a.im_format = a.min_max_format
    /\ a.im_format \in {"uint8", "uint16", "uint32", "uint64", "float32", "float64"}

\* C16: a min_max call that has returned has invoked the kernel iff the
\* image is 2-D, min_max is 1-D with 2 elements, both have the same format
\* and it is one of the six kinds; otherwise it has thrown.  The kernel
\* invoked is min_max instantiated at the image's own kind.
C16_MinMaxAccepts ==
    (args.entry = "min_max" /\ Returned)
    => /\ (st.pc = "invoked") <=> MinMaxAccepted(args)
       /\ (st.pc = "raised") <=> ~MinMaxAccepted(args)
       /\ st.pc = "invoked"
          => st.kernel.template = "min_max" /\ st.kernel.T = args.im_format

\* min_max has been invoked at float64 on a 2x2 float64 image.
C16_Witness ==
    /\ args.entry = "min_max" /\ st.pc = "invoked"
    /\ args.im_shape = <<2, 2>> /\ args.im_format = "float64"
    /\ st.kernel.T = "float64"

\* The image kinds hist_min_max and masked_hist_min_max are to accept.
LegalKind(a) ==
    IF a.flag THEN a.im_format = "uint16"
    ELSE a.im_format \in {"uint8", "uint16", "uint32", "uint64"}

\* C17: hist_min_max and masked_hist_min_max throw for every image kind
\* other than uint16 when is_twelve_bit is set and for every kind other than
\* uint8, uint16, uint32, uint64 when it is clear, without invoking the
\* kernel; a call that passed the earlier checks is refused for its kind in
\* exactly these cases.
C17_FlagAndKinds ==
    (args.entry \in HistEntries /\ Returned)
    => /\ ~LegalKind(args) => st.pc = "raised" /\ st.kernel = NoKernel
       /\ ChecksPass(args)
          => (st.error \in {"format", "twelve_bit"} <=> ~LegalKind(args))
       /\ st.pc = "invoked"
          => st.kernel.T = args.im_format /\ st.kernel.flag = args.flag

\* masked_hist_min_max with is_twelve_bit set has refused a uint8 image that
\* passed every earlier check.
C17_Witness ==
    /\ args.entry = "masked_hist_min_max" /\ args.flag
    /\ args.im_format = "uint8" /\ ChecksPass(args)
    /\ st.pc = "raised" /\ st.error = "twelve_bit"

\* C18 (as claimed): a masked entry point invokes its kernel only with a
\* mask that is 2-dimensional and of format uint8 or bool.
C18_MaskValidated ==
    (args.entry \in MaskedEntries /\ st.pc = "invoked")
    => Len(args.mask_shape) = 2 /\ args.mask_format \in {"uint8", "bool"}

(***************************************************************************)
(* Scans into a histogram buffer that is not zeroed.  Under AccSpec the     *)
(* caller passes a buffer holding st.h0 and, when a scan is done, calls the *)
(* same function again on the same image and the same buffer; st.scan       *)
(* counts the calls.  A counter is a uint32_t: a value c below 2^31 is      *)
(* written c and a value from 2^31 up is written c - 2^32, so that ++ is    *)
(* + 1 at the wrap from 2^32 - 1 (written -1) to 0 as everywhere else.      *)
(***************************************************************************)
\* UINT32_MAX, the largest value of a counter.
MaxCounter == -1

MaxScans == 2

MaxAccSamples == 2

\* One fixed 8-bit scan, one masked fixed 16-bit scan, one ranged scan.
AccFns == {"hist_uint8", "masked_hist_uint16", "ranged_hist_uint16"}

AccShapes == {rc \in Shapes : rc[1] * rc[2] <= MaxAccSamples}

\* What the caller left in the buffer.
InitialHists == {(0 :> 7) @@ (10 :> 3), (0 :> MaxCounter) @@ (10 :> MaxCounter)}

AccEntry(h0, scan) ==
    [pc |-> "start", row_start |-> NoValue, pixel |-> NoValue, mrow |-> 1,
     working_min |-> NoValue, working_max |-> NoValue,
     histogram |-> h0, min |-> NoValue, max |-> NoValue,
     visited |-> <<>>, h0 |-> h0, scan |-> scan]

AccInit ==
    /\ \E fn \in AccFns : \E rc \in AccShapes : args \in CallsFor(fn, rc[1], rc[2])
    /\ image = NoImage
    /\ \E h0 \in InitialHists : st = AccEntry(h0, 1)

\* The caller calls the function again with the buffer as the scan left it.
Rescan ==
    /\ st.pc = "done"
    /\ st.scan < MaxScans
    /\ st' = [AccEntry(st.histogram, st.scan + 1) EXCEPT !.h0 = st.h0]
    /\ UNCHANGED <<args, image>>

AccNext ==
    \/ Seed
    \/ RowEnter
    \/ LoopExit
    \/ Pixel
    \/ RowAdvance
    \/ Store
    \/ Rescan

AccSpec == AccInit /\ [][AccNext]_vars

\* The bins the loop body increments for a sample v: one bin or none.
BinsOf(a, v) == DOMAIN HistUpdate(a, ZeroHist, v)

\* The number of active samples of the image that the scan maps to bin b.
Mapped(a, b) == Cardinality({rc \in Active(a) : b \in BinsOf(a, Sample(rc))})

\* The bins anything has been said about.
Bins(a, s) ==
    DOMAIN s.h0 \cup DOMAIN s.histogram \cup
    UNION {BinsOf(a, Sample(rc)) : rc \in Active(a)}

\* The number of samples the scans have read so far.
ReadSoFar(a, s) == (s.scan - 1) * ActiveCount(a) + Len(s.visited)

\* Going from counter value x to counter value y passed UINT32_MAX.
Wrapped(x, y) == x < 0 /\ y >= 0

MaxConcSamples == 2

ConcFn == "hist_uint16"

ConcSamples == {41, 4095}

ConcShapes == {rc \in Shapes : rc[1] * rc[2] <= MaxConcSamples}

Threads == {1, 2}

ConcEntry(id) ==
    [pc |-> "start", row_start |-> NoValue, pixel |-> NoValue, mrow |-> 1,
     working_min |-> NoValue, working_max |-> NoValue,
     histogram |-> ZeroHist, min |-> NoValue, max |-> NoValue,
     visited |-> <<>>, image |-> id]

ConcInit ==
    /\ \E rc \in ConcShapes :
          \E a1 \in CallsFor(ConcFn, rc[1], rc[2]) :
             \E a2 \in CallsFor(ConcFn, rc[1], rc[2]) : args = <<a1, a2>>
    /\ image = NoImage
    /\ \E id \in Threads : st = <<ConcEntry(1), ConcEntry(id)>>

\* Frame with working_min and working_max given static storage: both calls
\* use the cells of the first.
Frame_Static(S, i) ==
    [S[i] EXCEPT !.working_min = S[1].working_min,
                 !.working_max = S[1].working_max]

\* The variables call i works on: its parameters' targets and its locals,
\* all of automatic storage.
Frame(S, i) == S[i]

\* The next step of the call loads a sample: the seed or *pixel.
ReadsSample(a, s) ==
    \/ s.pc = "start" /\ HasMinMax(a.fn)
    \/ s.pc = "pixels" /\ InSpan(a, s)

\* The offset from the image pointer that step loads from.
LoadOffset(a, s) == IF s.pc = "start" THEN SeedAddr(a) ELSE s.pixel

ConcLoadable(key) == IF key \in DOMAIN image THEN {image[key]} ELSE ConcSamples

ConcLoaded(key, v) == IF key \in DOMAIN image THEN image ELSE image @@ (key :> v)

\* Thread i executes a step that reads the image.
ThreadLoad(i) ==
    LET a == args[i]
        s == Frame(st, i)
        key == <<s.image, LoadOffset(a, s)>>
    IN  /\ ReadsSample(a, s)
        /\ \E v \in ConcLoadable(key) :
              /\ image' = ConcLoaded(key, v)
              /\ st' = [st EXCEPT ![i] = IF s.pc = "start"
                                         THEN SeedStep(a, s, v)
                                         ELSE PixelStep(a, s, v)]
        /\ UNCHANGED args

\* Thread i executes a step that reads no sample.
ThreadAdvance(i) ==
    LET a == args[i]
        s == Frame(st, i)
    IN  /\ s.pc # "done"
        /\ ~ReadsSample(a, s)
        /\ st' = [st EXCEPT ![i] = Step(a, NoImage, s)]
        /\ UNCHANGED <<args, image>>

ConcNext == \E i \in Threads : ThreadLoad(i) \/ ThreadAdvance(i)

ConcSpec == ConcInit /\ [][ConcNext]_vars

\* The image with the given id as the call sees it: offset |-> sample.
ImageOf(id) ==
    [offset \in {key[2] : key \in {k \in DOMAIN image : k[1] = id}}
        |-> image[<<id, offset>>]]

\* Call i run alone, from entry to return, on the image as loaded.
Alone(i) == Run(args[i], ImageOf(st[i].image), ConcEntry(st[i].image))

SpanLen(a, i) == IF Masked(a.fn) THEN a.ends[i] - a.starts[i] ELSE a.cols

\* The steps rows i .. rows take: per row the loop entry, one run of the
\* body per sample of its span, and the advance to the next row.
RECURSIVE RowsWork(_, _)
RowsWork(a, i) == IF i > a.rows THEN 0 ELSE 2 + SpanLen(a, i) + RowsWork(a, i + 1)

\* The steps after the outer loop: its exit, and the store of min and max.
TailWork(a) == IF HasMinMax(a.fn) THEN 2 ELSE 1

\* The row and the column the loops stand at, for strides >= 1.
RowIndex(a, s) == s.row_start \div a.r_stride

ColIndex(a, s) == (s.pixel - s.row_start) \div a.c_stride

\* The number of steps between s and the return of the call.
StepsLeft(a, s) ==
    IF s.pc = "start" THEN 1 + RowsWork(a, 1) + TailWork(a)
    ELSE IF s.pc = "rows" THEN RowsWork(a, RowIndex(a, s) + 1) + TailWork(a)
    ELSE IF s.pc = "pixels"
    THEN (SpanEnd(a, s) - ColIndex(a, s)) + 1
         + RowsWork(a, RowIndex(a, s) + 2) + TailWork(a)
    ELSE IF s.pc = "store" THEN 1
    ELSE 0

\* The call can take its next step: one of the loop-control steps is enabled,
\* or the inner loop test holds and the sample at the cursor can be loaded.
CanStep ==
    \/ ENABLED (Seed \/ Enter \/ RowEnter \/ LoopExit \/ RowAdvance \/ Store)
    \/ st.pc = "pixels" /\ InSpan(args, st) /\ Loadable(st.pixel) # {}

\* Before the return a step is possible and steps remain; at the return none
\* remain and the inner loop body has run once per active sample.
Progress ==
    /\ ~Done => CanStep /\ StepsLeft(args, st) > 0
    /\ Done => StepsLeft(args, st) = 0 /\ Len(st.visited) = ActiveCount(args)

\* C21: on an image with strides >= 1 and byte extents that do not wrap,
\* and a mask with starts[i] <= ends[i] <= cols, every scan routine
\* terminates: a call that has not returned can always step, every step
\* brings the return exactly one step nearer (so no step exits early or
\* repeats), and at the return the inner loop body has run exactly once per
\* active sample.
C21_Terminates ==
    [][/\ Progress
       /\ Progress'
       /\ StepsLeft(args, st') = StepsLeft(args, st) - 1]_vars


\* masked_hist_uint16 has returned from a 2x2 image with spans [0, 2) and
\* [1, 2): three runs of the loop body.
C21_Witness ==
    /\ Done /\ args.fn = "masked_hist_uint16"
    /\ args.rows = 2 /\ args.cols = 2
    /\ args.starts = <<0, 1>> /\ args.ends = <<2, 2>>
    /\ Len(st.visited) = 3

(***************************************************************************)
(* Strides of 0 and strides whose products with rows, cols, *starts or     *)
(* *ends reach 2^32.  Addresses of these calls are counted in units of     *)
(* 2^16 bytes, so that 2^32 bytes are Wrap units.                          *)
(***************************************************************************)
\* The most reads beyond the last sample of the image a run is followed for.
MaxOverrun == 1

\* 2^32 bytes in address units.
Wrap == 65536

\* r_stride and c_stride in address units: 0, 2^16 bytes and 2^31 bytes.
StrideValues == {0, 1, 32768}

StrideFns == {"hist_uint8", "masked_hist_uint8", "minmax_float"}

StrideCall(fn, rows, cols, r_stride, c_stride, mask) ==
    [fn |-> fn, rows |-> rows, cols |-> cols,
     r_stride |-> r_stride, c_stride |-> c_stride,
     starts |-> [i \in DOMAIN mask |-> mask[i][1]],
     ends |-> [i \in DOMAIN mask |-> mask[i][2]],
     shift |-> 0, n_bins |-> 0, hist_min |-> 0, hist_max |-> 0,
     wrap |-> Wrap]

StrideInit ==
    /\ \E fn \in StrideFns : \E rc \in Shapes :
       \E r_stride \in StrideValues : \E c_stride \in StrideValues :
       \E mask \in (IF Masked(fn) THEN Masks(rc[1], rc[2]) ELSE {<<>>}) :
          args = StrideCall(fn, rc[1], rc[2], r_stride, c_stride, mask)
    /\ image = NoImage
    /\ st = Entry

\* The image buffer reaches from its first to its last sample.
InBuffer(a, addr) ==
    0 <= addr /\ addr <= (a.rows - 1) * a.r_stride + (a.cols - 1) * a.c_stride

\* The loop body's reads so far that lie beyond the buffer.
Overruns(a, s) ==
    Cardinality({i \in 1 .. Len(s.visited) : ~InBuffer(a, s.visited[i])})

\* The loop body, its read inside the buffer; a read beyond the buffer is
\* undefined and either returns some sample or faults.
BufferPixel ==
    /\ InBuffer(args, st.pixel) \/ Overruns(args, st) < MaxOverrun
    /\ Pixel

Fault ==
    /\ st.pc = "pixels"
    /\ InSpan(args, st)
    /\ ~InBuffer(args, st.pixel)
    /\ st' = [st EXCEPT !.pc = "fault"]
    /\ UNCHANGED <<args, image>>

StrideNext ==
    Seed \/ RowEnter \/ LoopExit \/ BufferPixel \/ Fault \/ RowAdvance \/ Store

StrideSpec == StrideInit /\ [][StrideNext]_vars

\* The addresses of the active samples.
ActiveAddrs(a) == {Addr(a, rc) : rc \in Active(a)}

\* The addresses the loop body has read.
VisitedAddrs(s) == {s.visited[i] : i \in 1 .. Len(s.visited)}

\* C22 (as claimed): for strides >= 1 of any 32-bit value the loop sentinels,
\* computed modulo 2^32, stand at the true byte extents: the scan never
\* leaves the image and returns having read each active sample exactly once,
\* also when rows*r_stride or cols*c_stride is 2^32 or more.
C22_SentinelsExact ==
    (args.r_stride >= 1 /\ args.c_stride >= 1) =>
        /\ st.pc # "fault"
        /\ Done => /\ Len(st.visited) = ActiveCount(args)
                   /\ VisitedAddrs(st) = ActiveAddrs(args)

\* C23 (as claimed): a full-rectangle scan with r_stride = 0 or c_stride = 0
\* runs its loop body rows*cols times, and a histogram scan has counted
\* rows*cols samples.
C23_BroadcastScanned ==
    (/\ Done
     /\ ~Masked(args.fn)
     /\ args.r_stride = 0 \/ args.c_stride = 0) =>
        /\ Len(st.visited) = args.rows * args.cols
        /\ args.fn = "hist_uint8" => SumHist(st.histogram) = args.rows * args.cols

\* The column of row 0 the working minimum and maximum are seeded from.
SeedColumn(a) == IF Masked(a.fn) THEN a.starts[1] ELSE 0

\* C24 (as claimed): with starts[i] <= ends[i] <= cols every read of a masked
\* scan lies at a column in [0, cols) of a row in [0, rows): the seed read at
\* column starts[0] of row 0, also when starts[0] = ends[0] = cols, and every
\* read of the loop body.
C24_ReadsInsideRow ==
    Masked(args.fn) =>
        /\ (HasMinMax(args.fn) /\ st.pc # "start") =>
              /\ SeedAddr(args) \in DOMAIN image
              /\ SeedColumn(args) \in 0 .. args.cols - 1
        /\ VisitedAddrs(st) \subseteq ActiveAddrs(args)

(***************************************************************************)
(* The histogram length of hist_min_max and masked_hist_min_max.           *)
(***************************************************************************)
\* The length the message of the length error names: bin_count<T>() for the
\* T of the branch.
MessageLen(a) == bin_count(a, a.im_format)

\* The call has reached the comparison of the histogram length.
LengthCompared == st.pc = "invoked" \/ st.error = "hist_len"

\* C25 (as claimed): for every image kind and flag, masked_hist_min_max takes
\* a histogram length to its kernel exactly when hist_min_max does, and in
\* both the length the error message names is the length the check compares.
C25_SameLengths ==
    (args.entry \in HistEntries /\ LengthCompared) =>
        /\ RequiredLen(args) = MessageLen(args)
        /\ st.pc = "invoked" <=>
              args.hist_shape[1] = RequiredLen([args EXCEPT !.entry = "hist_min_max"])

\* C27 (as claimed): ranged_hist and masked_ranged_hist invoke their kernel
\* only with a range buffer that is 1-dimensional with exactly 2 elements.
C27_RangeShapeChecked ==
    (args.entry \in RangedEntries /\ st.pc = "invoked") => args.range_shape = <<2>>

\* The integer-kind functions that bin against a custom range.
RangedIntFns == Ranged8Fns \cup Ranged16Fns

\* C26 (as claimed): ranged_hist_uint8, ranged_hist_uint16 and their masked
\* variants end with *min and *max equal to the least and the greatest of
\* all active samples, whatever hist_min, hist_max and n_bins are: samples
\* outside [hist_min, hist_max] still count for them.
C26_RangedTrueMinMax ==
    (Done /\ args.fn \in RangedIntFns /\ Active(args) # {}) =>
        /\ Known(Active(args))
        /\ st.min = SetMin(ValuesAt(Active(args)))
        /\ st.max = SetMax(ValuesAt(Active(args)))

\* The samples the loop body has read, in order.
VisitedSamples == [i \in 1 .. Len(st.visited) |-> image[st.visited[i]]]

\* C28: once seeded, working_min <= working_max at every step of a scan that
\* keeps a minimum and maximum, every sample the loop body has read so far
\* lies between the two, and the stored outputs have min <= max.
C28_MinBelowMax ==
    (HasMinMax(args.fn) /\ st.pc # "start") =>
        /\ st.working_min <= st.working_max
        /\ \A i \in 1 .. Len(st.visited) :
              /\ st.working_min <= VisitedSamples[i]
              /\ VisitedSamples[i] <= st.working_max
        /\ Done => st.min <= st.max

\* minmax_float has returned from three samples, the second the greatest and
\* the third strictly between the stored minimum and maximum.
C28_Witness ==
    /\ Done /\ args.fn = "minmax_float"
    /\ Len(st.visited) = 3
    /\ VisitedSamples[2] = st.max
    /\ st.min < VisitedSamples[3] /\ VisitedSamples[3] < st.max

\* The greatest uint16_t: the most rows, columns and mask column indices.
MaxDim == 65535

\* MaxDim * MaxDim < 2^32, the product taken in two limbs of 8 and 24 bits:
\* MaxDim * MaxDim = (MaxDim * hi) * 2^8 + MaxDim * lo with MaxDim = hi * 2^8 + lo.
SquareFitsCounter ==
    LET hi == MaxDim \div 256
        lo == MaxDim % 256
    IN  MaxDim * hi + (MaxDim * lo) \div 256 < Pow2(24)

\* C29: in a scan that starts from a zeroed histogram no counter wraps: every
\* counter written holds at least 1 and at most the number of samples read,
\* the counters together hold no more than that number, and that number is
\* at most the number of active samples, which is at most rows * cols with
\* rows, cols <= 65535 and 65535 * 65535 < 2^32.
C29_NoCounterWraps ==
    /\ \A b \in DOMAIN st.histogram :
          1 <= st.histogram[b] /\ st.histogram[b] <= Len(st.visited)
    /\ SumHist(st.histogram) <= Len(st.visited)
    /\ Len(st.visited) <= ActiveCount(args)
    /\ ActiveCount(args) <= args.rows * args.cols
    /\ args.rows <= MaxDim /\ args.cols <= MaxDim
    /\ SquareFitsCounter

\* hist_uint8 has returned from a 2x2 image whose four samples are equal: one
\* counter holds all rows * cols of them.
C29_Witness ==
    /\ Done /\ args.fn = "hist_uint8"
    /\ args.rows = 2 /\ args.cols = 2
    /\ \E b \in DOMAIN st.histogram : st.histogram[b] = 4

(***************************************************************************)
(* ViewWidget.  Under ViewSpec args holds what the widget is constructed    *)
(* with, image the Qt objects created so far, by identity, and st the       *)
(* widget's members, the position inside makeView() and the history of the  *)
(* calls.                                                                   *)
(***************************************************************************)
\* The most makeView() calls made on the widget.
MaxCalls == 3

nullptr == 0

\* What a pointer member holds before anything is assigned to it: the
\* constructor's initializer list names QWidget(parent) only.  NoValue stands
\* for an indeterminate, non-null pointer.
MemberInits == {nullptr, NoValue}

\* layout() before the first makeView(): none, or one a subclass or caller
\* has set.
LayoutInits == {"none", "QHBoxLayout", "QVBoxLayout"}

\* The identity of the next object created.
NewObject == Cardinality(DOMAIN image) + 1

Allocated(obj) == (NewObject :> obj) @@ image

ViewEntry(a) ==
    [pc |-> "idle",
     m_view |-> a.m_view, m_viewContainerWidget |-> a.m_viewContainerWidget,
     layout |-> IF a.layout = "none" THEN nullptr ELSE 1,
     calls |-> 0, instantiated |-> 0, outcome |-> "none", result |-> NoValue]

ViewInit ==
    /\ args \in [m_view : MemberInits, m_viewContainerWidget : MemberInits,
                 layout : LayoutInits]
    /\ image = IF args.layout = "none" THEN NoImage
               ELSE (1 :> [class |-> args.layout, widgets |-> <<>>])
    /\ st = ViewEntry(args)

\* ViewExists with the container left out of the test.
ViewExists_ViewOnly(s) == s.m_view # nullptr

\* if(m_view || m_viewContainerWidget)
ViewExists(s) == s.m_view # nullptr \/ s.m_viewContainerWidget # nullptr

\* View* ViewWidget::view()
view ==
    /\ st.pc = "idle"
    /\ st' = [st EXCEPT !.result = st.m_view]
    /\ UNCHANGED <<args, image>>

\* QWidget* ViewWidget::viewContainerWidget()
viewContainerWidget ==
    /\ st.pc = "idle"
    /\ st' = [st EXCEPT !.result = st.m_viewContainerWidget]
    /\ UNCHANGED <<args, image>>

\* A call of makeView() begins.
makeView ==
    /\ st.pc = "idle"
    /\ st.calls < MaxCalls
    /\ st' = [st EXCEPT !.pc = "check", !.calls = @ + 1, !.outcome = "none"]
    /\ UNCHANGED <<args, image>>

\* The test of the first statement; the call ends here when it throws.
CheckView ==
    /\ st.pc = "check"
    /\ st' = IF ViewExists(st)
             THEN [st EXCEPT !.pc = "idle", !.outcome = "RisWidgetException"]
             ELSE [st EXCEPT !.pc = "layout"]
    /\ UNCHANGED <<args, image>>

\* if(layout() == nullptr) setLayout(new QHBoxLayout);
EnsureLayout ==
    /\ st.pc = "layout"
    /\ IF st.layout = nullptr
       THEN /\ image' = Allocated([class |-> "QHBoxLayout", widgets |-> <<>>])
            /\ st' = [st EXCEPT !.pc = "instantiate", !.layout = NewObject]
       ELSE /\ st' = [st EXCEPT !.pc = "instantiate"]
            /\ UNCHANGED image
    /\ UNCHANGED args

\* m_view = instantiateView();
instantiateView ==
    /\ st.pc = "instantiate"
    /\ image' = Allocated([class |-> "View", shown |-> FALSE])
    /\ st' = [st EXCEPT !.pc = "container", !.m_view = NewObject,
                        !.instantiated = @ + 1]
    /\ UNCHANGED args

\* m_viewContainerWidget = QWidget::createWindowContainer(m_view, this, Qt::Widget);
createWindowContainer ==
    /\ st.pc = "container"
    /\ image' = Allocated([class |-> "QWindowContainer", window |-> st.m_view,
                           shown |-> FALSE])
    /\ st' = [st EXCEPT !.pc = "add", !.m_viewContainerWidget = NewObject]
    /\ UNCHANGED args

\* layout()->addWidget(m_viewContainerWidget);
addWidget ==
    /\ st.pc = "add"
    /\ image' = [image EXCEPT ![st.layout].widgets =
                                  Append(@, st.m_viewContainerWidget)]
    /\ st' = [st EXCEPT !.pc = "show"]
    /\ UNCHANGED args

\* m_viewContainerWidget->show(); m_view->show(); and the return.
show ==
    /\ st.pc = "show"
    /\ image' = [image EXCEPT ![st.m_viewContainerWidget].shown = TRUE,
                              ![st.m_view].shown = TRUE]
    /\ st' = [st EXCEPT !.pc = "idle", !.outcome = "returned"]
    /\ UNCHANGED args

ViewNext ==
    \/ view \/ viewContainerWidget \/ makeView \/ CheckView \/ EnsureLayout
    \/ instantiateView \/ createWindowContainer \/ addWidget \/ show

ViewSpec == ViewInit /\ [][ViewNext]_vars

\* C30: over any sequence of makeView() calls on one widget instantiateView()
\* runs at most once.  A call that finds m_view or m_viewContainerWidget
\* non-null ends at its first statement with RisWidgetException and with the
\* two members, the layout, the count of instantiations and every object as
\* they were; a call that finds both null goes on, and when it returns both
\* members point to the view and the container it has created.
C30_ViewMadeOnce ==
    [][/\ st'.instantiated <= 1
       /\ (/\ st.pc = "check"
           /\ st.m_view # nullptr \/ st.m_viewContainerWidget # nullptr) =>
             /\ st'.pc = "idle"
             /\ st'.outcome = "RisWidgetException"
             /\ st'.m_view = st.m_view
             /\ st'.m_viewContainerWidget = st.m_viewContainerWidget
             /\ st'.layout = st.layout
             /\ st'.instantiated = st.instantiated
             /\ image' = image
       /\ (/\ st.pc = "check"
           /\ st.m_view = nullptr /\ st.m_viewContainerWidget = nullptr) =>
             /\ st'.pc # "idle"
             /\ st'.outcome = "none"
       /\ (st.pc # "idle" /\ st'.outcome = "returned") =>
             /\ st'.m_view # nullptr /\ st'.m_viewContainerWidget # nullptr
             /\ st'.m_view \in DOMAIN image'
             /\ image'[st'.m_view].class = "View"
             /\ st'.m_viewContainerWidget \in DOMAIN image'
             /\ image'[st'.m_viewContainerWidget].window = st'.m_view
             /\ st'.instantiated = 1]_vars

\* The second makeView() call on a widget has thrown: the view and the
\* container the first call made are still the members, shown, and the
\* container is the one widget of the layout.
C30_Witness ==
    /\ st.pc = "idle" /\ st.calls = 2
    /\ st.outcome = "RisWidgetException"
    /\ st.instantiated = 1
    /\ st.m_view \in DOMAIN image /\ image[st.m_view].shown
    /\ st.layout \in DOMAIN image
    /\ image[st.layout].widgets = <<st.m_viewContainerWidget>>

====
